---- MODULE Spec2Model ----
(***************************************************************************)
(* Model of lev-rs (src/src/lib.rs): the Levenshtein distance in its four  *)
(* formulations, naive_distance, matrix_distance, double_row_distance and  *)
(* single_row_distance, and the public entry point distance.               *)
(*                                                                         *)
(* A Rust &str is modelled as the sequence of its chars (Unicode scalar    *)
(* values).  str::len() counts BYTES of the UTF-8 encoding, chars().nth(n) *)
(* counts CHARS, and &s[1..] slices at a byte offset: the model keeps the  *)
(* three apart by giving every char its encoded width.                     *)
(***************************************************************************)
EXTENDS Naturals, Integers, Sequences, FiniteSets

\* Longest input (in chars) of the step-by-step run of single_row_distance.
MaxLen == 3
\* Longest input (in chars) of the three-string calls of distance.
MaxTriLen == 2

\* Chars of one byte in UTF-8.
Ascii == {"a", "b"}
\* Chars of two bytes in UTF-8 (U+00E9, e with acute accent).
TwoByte == {"e_acute"}
Alphabet == Ascii \cup TwoByte

\* The result of chars().nth(n) past the last char.
None == "None"
\* The outcome of a call that panics (no usize is negative).
Panic == -1

\* All strings of at most n chars.
Strings(n) == UNION {[1..k -> Alphabet] : k \in 0..n}

\* char::len_utf8 as str::len sees it.
Utf8Len(c) == IF c \in TwoByte THEN 2 ELSE 1

\* s.len(): the length of s in bytes.
RECURSIVE len(_)
len(s) == IF s = <<>> THEN 0 ELSE Utf8Len(Head(s)) + len(Tail(s))

\* s.chars().nth(n): the n-th char (from 0), None past the end.
chars_nth(s, n) == IF n < Len(s) THEN s[n + 1] ELSE None

\* &s[1..] of a non-empty s panics when byte 1 is not a char boundary.
slice1_panics(s) == Utf8Len(Head(s)) # 1

\* &s[1..] of a non-empty s whose first char is one byte: the rest of s.
slice1(s) == Tail(s)

Min2(p, q) == IF p <= q THEN p ELSE q
min3(p, q, r) == Min2(Min2(p, q), r)

----
\* single_row_distance, one definition per piece of the function.

\* if a.len() == 0 { return b.len(); }
EmptyAReturn(a, b) == len(b)

\* Mutant of EmptyBReturn: the first short-circuit copied without swapping
\* the argument.
EmptyBReturn_Copied(a, b) == len(b)

\* if b.len() == 0 { return a.len(); }
EmptyBReturn(a, b) == len(a)

\* Mutant of RowLen: the row sized by the number of chars instead of bytes.
RowLen_CharCount(a) == Len(a) + 1

\* let mut row = vec![0; a.len() + 1];
RowLen(a) == len(a) + 1

\* for i in 0..row.len() { row[i] = i }   (row[i] is kept at index i + 1)
RowInit(a) == [i \in 1..RowLen(a) |-> i - 1]

\* Mutant of OuterHead: row[0] set to y instead of y + 1.
OuterHead_OffByOne(row, y) == [last |-> row[1], row |-> [row EXCEPT ![1] = y]]

\* (last, row[0]) = (row[0], y + 1);
OuterHead(row, y) == [last |-> row[1], row |-> [row EXCEPT ![1] = y + 1]]

\* Mutant of MismatchCell: the cost of the edit is not added.
MismatchCell_NoCost(diag, left, up) == min3(diag, left, up)

\* The value stored into row[x + 1] when the chars differ.
MismatchCell(diag, left, up) == 1 + min3(diag, left, up)

\* The body of the inner loop for one x.
InnerBody(a, b, st, x, y) ==
    IF chars_nth(a, x) = chars_nth(b, y)
    THEN [last |-> st.row[x + 2], row |-> [st.row EXCEPT ![x + 2] = st.last]]
    ELSE [last |-> st.row[x + 2],
          row |-> [st.row EXCEPT
                     ![x + 2] = MismatchCell(st.last, st.row[x + 1], st.row[x + 2])]]

RECURSIVE InnerLoop(_, _, _, _, _)
InnerLoop(a, b, st, x, y) ==
    IF x < len(a) THEN InnerLoop(a, b, InnerBody(a, b, st, x, y), x + 1, y) ELSE st

RECURSIVE OuterLoop(_, _, _, _)
OuterLoop(a, b, row, y) ==
    IF y < len(b)
    THEN OuterLoop(a, b, InnerLoop(a, b, OuterHead(row, y), 0, y).row, y + 1)
    ELSE row

single_row_distance(a, b) ==
    IF len(a) = 0 THEN EmptyAReturn(a, b)
    ELSE IF len(b) = 0 THEN EmptyBReturn(a, b)
    ELSE OuterLoop(a, b, RowInit(a), 0)[len(a) + 1]

distance(a, b) == single_row_distance(a, b)

----
\* naive_distance: the recursive reference.  A panic in a slice or in a
\* recursive call unwinds the whole call.

RECURSIVE naive_distance(_, _)
naive_distance(a, b) ==
    IF len(a) = 0 THEN len(b)
    ELSE IF len(b) = 0 THEN len(a)
    ELSE IF chars_nth(a, 0) = chars_nth(b, 0)
    THEN IF slice1_panics(a) \/ slice1_panics(b)
         THEN Panic
         ELSE naive_distance(slice1(a), slice1(b))
    ELSE IF slice1_panics(a)
         THEN Panic
         ELSE LET del == naive_distance(slice1(a), b)
              IN  IF del = Panic \/ slice1_panics(b)
                  THEN Panic
                  ELSE LET ins == naive_distance(a, slice1(b))
                           sub == naive_distance(slice1(a), slice1(b))
                       IN  IF ins = Panic \/ sub = Panic
                           THEN Panic
                           ELSE 1 + min3(del, ins, sub)

----
\* matrix_distance: the full grid, matrix[index(x, y)] kept at index + 1.

index(a, x, y) == (y * (len(a) + 1)) + x + 1

\* vec![0; ..] with the top row and the left column populated.
MatrixInit(a, b) ==
    [i \in 1..((len(a) + 1) * (len(b) + 1)) |->
        IF i <= len(a) + 1 THEN i - 1
        ELSE IF (i - 1) % (len(a) + 1) = 0 THEN (i - 1) \div (len(a) + 1)
        ELSE 0]

MatrixCell(a, b, matrix, x, y) ==
    IF chars_nth(a, x - 1) = chars_nth(b, y - 1)
    THEN matrix[index(a, x - 1, y - 1)]
    ELSE 1 + min3(matrix[index(a, x - 1, y)],
                  matrix[index(a, x, y - 1)],
                  matrix[index(a, x - 1, y - 1)])

\* for y in 1..=b.len() { for x in 1..=a.len() { .. } }
RECURSIVE MatrixFill(_, _, _, _, _)
MatrixFill(a, b, matrix, x, y) ==
    IF y > len(b) THEN matrix
    ELSE IF x > len(a) THEN MatrixFill(a, b, matrix, 1, y + 1)
    ELSE MatrixFill(a, b,
                    [matrix EXCEPT ![index(a, x, y)] = MatrixCell(a, b, matrix, x, y)],
                    x + 1, y)

matrix_distance(a, b) ==
    IF len(a) = 0 THEN len(b)
    ELSE IF len(b) = 0 THEN len(a)
    ELSE LET matrix == MatrixFill(a, b, MatrixInit(a, b), 1, 1)
         IN  matrix[Len(matrix)]

----
\* double_row_distance: two rows swapped at the head of every outer step.

\* (row1, row2) = (row2, row1); row2[0] = y + 1;
DoubleHead(rows, y) ==
    [row1 |-> rows.row2, row2 |-> [rows.row1 EXCEPT ![1] = y + 1]]

DoubleBody(a, b, rows, x, y) ==
    IF chars_nth(a, x) = chars_nth(b, y)
    THEN [rows EXCEPT !.row2[x + 2] = rows.row1[x + 1]]
    ELSE [rows EXCEPT !.row2[x + 2] =
            1 + min3(rows.row1[x + 2], rows.row1[x + 1], rows.row2[x + 1])]

RECURSIVE DoubleInner(_, _, _, _, _)
DoubleInner(a, b, rows, x, y) ==
    IF x < len(a) THEN DoubleInner(a, b, DoubleBody(a, b, rows, x, y), x + 1, y)
    ELSE rows

RECURSIVE DoubleOuter(_, _, _, _)
DoubleOuter(a, b, rows, y) ==
    IF y < len(b)
    THEN DoubleOuter(a, b, DoubleInner(a, b, DoubleHead(rows, y), 0, y), y + 1)
    ELSE rows

double_row_distance(a, b) ==
    IF len(a) = 0 THEN len(b)
    ELSE IF len(b) = 0 THEN len(a)
    ELSE LET rows == DoubleOuter(a, b,
                        [row1 |-> [i \in 1..(len(a) + 1) |-> 0],
                         row2 |-> [i \in 1..(len(a) + 1) |-> i - 1]], 0)
         IN  rows.row2[Len(rows.row2)]

----
\* One call of distance(a, b), run statement by statement through
\* single_row_distance.  pc is the position in the function:
\*   "entry"  before the two empty-input checks
\*   "outer"  at the head of `for y in 0..b.len()`
\*   "inner"  at the head of `for x in 0..a.len()`
\*   "done"   returned, the value in result
\*   "panic"  an index was out of the bounds of row
\* last is declared without a value (`let mut last;`) and is assigned before
\* every read; it and result read 0 until they are assigned.

VARIABLES a, b, pc, row, last, x, y, result,
          args, called, returned

run == <<a, b, pc, row, last, x, y, result>>
calls == <<args, called, returned>>
vars == <<a, b, pc, row, last, x, y, result, args, called, returned>>

\* row[i] of the Vec is in bounds.
InBounds(r, i) == i < Len(r)

NoCalls ==
    /\ args = <<<<>>, <<>>, <<>>>>
    /\ called = "none"
    /\ returned = <<>>

Init ==
    /\ a \in Strings(MaxLen)
    /\ b \in Strings(MaxLen)
    /\ pc = "entry"
    /\ row = <<>>
    /\ last = 0
    /\ x = 0
    /\ y = 0
    /\ result = 0
    /\ NoCalls

\* Lines 114-125: the short-circuits, else the row is allocated and filled.
Entry ==
    /\ pc = "entry"
    /\ IF len(a) = 0
       THEN /\ result' = EmptyAReturn(a, b)
            /\ pc' = "done"
            /\ row' = row
       ELSE IF len(b) = 0
       THEN /\ result' = EmptyBReturn(a, b)
            /\ pc' = "done"
            /\ row' = row
       ELSE /\ row' = RowInit(a)
            /\ pc' = "outer"
            /\ result' = result
    /\ UNCHANGED <<a, b, last, x, y, calls>>

\* Lines 129-130: one more y; (last, row[0]) = (row[0], y + 1).
OuterStep ==
    /\ pc = "outer"
    /\ y < len(b)
    /\ IF InBounds(row, 0)
       THEN /\ last' = OuterHead(row, y).last
            /\ row' = OuterHead(row, y).row
            /\ x' = 0
            /\ pc' = "inner"
       ELSE /\ pc' = "panic"
            /\ UNCHANGED <<last, row, x>>
    /\ UNCHANGED <<a, b, y, result, calls>>

\* Lines 131-141: one more x; the body of the inner loop.
InnerStep ==
    /\ pc = "inner"
    /\ x < len(a)
    /\ IF InBounds(row, x) /\ InBounds(row, x + 1)
       THEN /\ last' = InnerBody(a, b, [last |-> last, row |-> row], x, y).last
            /\ row' = InnerBody(a, b, [last |-> last, row |-> row], x, y).row
            /\ x' = x + 1
            /\ pc' = pc
       ELSE /\ pc' = "panic"
            /\ UNCHANGED <<last, row, x>>
    /\ UNCHANGED <<a, b, y, result, calls>>

\* Line 131: x reached a.len(), the inner loop ends and y advances.
InnerExit ==
    /\ pc = "inner"
    /\ ~(x < len(a))
    /\ y' = y + 1
    /\ pc' = "outer"
    /\ UNCHANGED <<a, b, row, last, x, result, calls>>

\* Lines 129, 144: y reached b.len(); return row[a.len()].
Return ==
    /\ pc = "outer"
    /\ ~(y < len(b))
    /\ IF InBounds(row, len(a))
       THEN /\ result' = row[len(a) + 1]
            /\ pc' = "done"
       ELSE /\ pc' = "panic"
            /\ result' = result
    /\ UNCHANGED <<a, b, row, last, x, y, calls>>

Next == Entry \/ OuterStep \/ InnerStep \/ InnerExit \/ Return

Spec == Init /\ [][Next]_vars

\* The function is straight-line sequential code: whenever a statement is
\* left to run, it runs.
LiveSpec == Spec /\ WF_vars(Next)

----
\* Whole calls of the functions on arguments drawn from bounded sets.

IdleRun ==
    /\ a = <<>>
    /\ b = <<>>
    /\ pc = "idle"
    /\ row = <<>>
    /\ last = 0
    /\ x = 0
    /\ y = 0
    /\ result = 0

CallInit ==
    /\ args \in Strings(MaxTriLen) \X Strings(MaxTriLen) \X Strings(MaxTriLen)
    /\ called = "none"
    /\ returned = <<>>
    /\ IdleRun

\* distance on the pairs of the three arguments, in both orders of the first.
CallDistance ==
    /\ called = "none"
    /\ called' = "distance"
    /\ returned' = << distance(args[1], args[2]),
                      distance(args[2], args[1]),
                      distance(args[2], args[3]),
                      distance(args[1], args[3]) >>
    /\ UNCHANGED <<args, run>>

\* The four formulations on the first two arguments, as tests::it_works
\* calls them.
CallFormulations ==
    /\ called = "none"
    /\ called' = "formulations"
    /\ returned' = << naive_distance(args[1], args[2]),
                      matrix_distance(args[1], args[2]),
                      double_row_distance(args[1], args[2]),
                      single_row_distance(args[1], args[2]) >>
    /\ UNCHANGED <<args, run>>

CallNext == CallDistance \/ CallFormulations

CallSpec == CallInit /\ [][CallNext]_vars

----
\* The properties checked of the code.

\* The reference Levenshtein recurrence on two char sequences: the least
\* number of insertions, deletions and substitutions, each of cost 1.
RECURSIVE Lev(_, _)
Lev(s, t) ==
    IF s = <<>> THEN Len(t)
    ELSE IF t = <<>> THEN Len(s)
    ELSE min3(Lev(Tail(s), t) + 1,
              Lev(s, Tail(t)) + 1,
              Lev(Tail(s), Tail(t)) + (IF Head(s) = Head(t) THEN 0 ELSE 1))

\* The first n chars of s (all of s when it has fewer).
Prefix(s, n) == SubSeq(s, 1, Min2(n, Len(s)))

Max2(p, q) == IF p >= q THEN p ELSE q

\* The chars that occur in s.
CharsOf(s) == {s[i] : i \in DOMAIN s}

\* s without its i-th char.
Without(s, i) == SubSeq(s, 1, i - 1) \o SubSeq(s, i + 1, Len(s))

\* t is s with exactly one char inserted, deleted or substituted by another.
OneEdit(s, t) ==
    \/ /\ Len(t) = Len(s) + 1
       /\ \E i \in DOMAIN t : Without(t, i) = s
    \/ /\ Len(s) = Len(t) + 1
       /\ \E i \in DOMAIN s : Without(s, i) = t
    \/ /\ Len(s) = Len(t)
       /\ \E i \in DOMAIN s : s[i] # t[i] /\ Without(s, i) = Without(t, i)

HasTwoByte(s) == CharsOf(s) \cap TwoByte # {}

\* C1: distance(a, b) returns the value of the reference Levenshtein
\* recurrence on the two char sequences, for every a and b.
C1_DistanceIsLevenshtein == pc = "done" => result = Lev(a, b)

\* C2: symmetry: distance(a, b) = distance(b, a) for all a and b.
C2_Symmetry == called = "distance" => returned[1] = returned[2]

\* C2 witness: distance returned for two different non-empty strings of
\* different byte lengths, so the row and the loops differ between the orders.
C2_Witness ==
    /\ called = "distance"
    /\ len(args[1]) > 0
    /\ len(args[2]) > len(args[1])
    /\ HasTwoByte(args[2])
    /\ returned[1] > 1

\* C3: distance(a, b) = 0 if and only if a equals b char for char.
C3_ZeroIffEqual == pc = "done" => (result = 0 <=> a = b)

\* C3 witness: the loops ran on two equal strings holding a two-byte char
\* and returned 0.
C3_Witness ==
    /\ pc = "done"
    /\ a = b
    /\ Len(a) > 1
    /\ HasTwoByte(a)
    /\ y = len(b)
    /\ result = 0

\* C4: distance("", b) is the number of chars of b and distance(a, "") the
\* number of chars of a, also when a char takes more than one byte.
C4_EmptyInputCharCount ==
    pc = "done" => /\ (a = <<>> => result = Len(b))
                   /\ (b = <<>> => result = Len(a))

\* C5: 0 <= distance(a, b) <= max(len(a), len(b)) with len in chars, and
\* the upper bound is attained when a and b share no char.
C5_BoundedByMaxLen ==
    pc = "done" =>
        /\ 0 <= result
        /\ result <= Max2(Len(a), Len(b))
        /\ (CharsOf(a) \cap CharsOf(b) = {} => result = Max2(Len(a), Len(b)))

\* C6: triangle inequality: distance(a, c) <= distance(a, b) + distance(b, c).
C6_Triangle == called = "distance" => returned[4] <= returned[1] + returned[3]

\* C6 witness: three different non-empty strings for which the bound is
\* tight and neither term is 0.
C6_Witness ==
    /\ called = "distance"
    /\ len(args[1]) > 0 /\ len(args[2]) > 0 /\ len(args[3]) > 0
    /\ HasTwoByte(args[2])
    /\ returned[1] > 0
    /\ returned[3] > 0
    /\ returned[4] = returned[1] + returned[3]

\* C7: if b is a with exactly one char inserted, deleted or substituted by a
\* different char, distance(a, b) = 1.
C7_SingleEdit == (pc = "done" /\ OneEdit(a, b)) => result = 1

\* C8: distance never panics and returns: every index into row made by the
\* loops is in bounds, and both loops end.
C8_Totality == [](pc # "panic") /\ <>(pc = "done")

\* C8 witness: the call returned after running both loops on two strings
\* that hold two-byte chars.
C8_Witness ==
    /\ pc = "done"
    /\ HasTwoByte(a)
    /\ HasTwoByte(b)
    /\ Len(a) = MaxLen
    /\ y = len(b)
    /\ x = len(a)

\* C9: naive_distance, matrix_distance, double_row_distance and
\* single_row_distance return the same value on every input.
C9_FormulationsAgree ==
    called = "formulations" =>
        /\ returned[1] = returned[4]
        /\ returned[2] = returned[4]
        /\ returned[3] = returned[4]

\* C10: immediately before row[x + 1] is computed, last holds the edit
\* distance between the first x chars of a and the first y chars of b,
\* row[x] the value of the current row and row[x + 1] the value of the
\* previous row; after the step last holds the old row[x + 1].
C10_ScratchInvariant ==
    [][(pc = "inner" /\ x < len(a)) =>
          /\ last = Lev(Prefix(a, x), Prefix(b, y))
          /\ row[x + 1] = Lev(Prefix(a, x), Prefix(b, y + 1))
          /\ row[x + 2] = Lev(Prefix(a, x + 1), Prefix(b, y))
          /\ last' = row[x + 2]]_vars

====
